---------------------------- MODULE Spec2Model ----------------------------
(***************************************************************************)
(* Driver safety system: the per-frame drowsiness state machine of         *)
(* DrowsinessDetector.process_frame (src/detect_drowsiness.py) and the     *)
(* cooldown alert dispatcher trigger_alert (src/alert.py).                 *)
(*                                                                         *)
(* EAR and MAR are real numbers in the source.  Here they are integers in  *)
(* units of 1/10000, so 0.25 is 2500; the status dictionary holds them     *)
(* rounded to three decimals (units of 1/1000), as round(x, 3) does.       *)
(* Clock readings are whole seconds.                                       *)
(***************************************************************************)
EXTENDS Integers, Sequences, FiniteSets, TLC

(***************************************************************************)
(* Program constants.                                                      *)
(***************************************************************************)
EAR_THRESHOLD == 2500
EAR_CONSEC_FRAMES == 20
YAWN_THRESHOLD == 6000
\* the literal 3 of `if self.counter >= 3`
BLINK_MIN_FRAMES == 3
\* the literal 3 of `status["yawn_count"] >= 3`
YAWN_WARNING_COUNT == 3
\* heart_rate_model.py: _fuse_predictions' rf_weight=0.45 and gb_weight=0.55,
\* in hundredths
rf_weight == 45
gb_weight == 55

(***************************************************************************)
(* Bounds of the model.                                                    *)
(***************************************************************************)
\* faces the detector returns for one frame: 0..MaxFaces
MaxFaces == 2
\* process_frame is not called when it would take self.counter past this
MaxCounter == 20
\* ... or self.blink_count past this
MaxBlinks == 1
\* ... or self.yawn_count past this
MaxYawns == 3
\* clock readings are 0..MaxTime seconds
MaxTime == 11
\* AlertLogger.add is not called when it would take the log past this
MaxLog == 2
\* trigger_alert is not called when it would leave more threads than this
\* waiting to run
MaxThreads == 2
\* train is not called more often than this
MaxTrains == 2

\* EAR readings: below the threshold (closed), exactly at it (open)
EarValues == {1004, 2500}
\* MAR readings: exactly at the threshold (no yawn), above it
MarValues == {6000, 7003}

\* what the predictor and the two ratio functions give for one face: the
\* mean EAR and the MAR, or an exception raised while computing them
Faces == [ear : EarValues, mar : MarValues, raised : {FALSE}]

RECURSIVE SeqsUpTo(_, _)
SeqsUpTo(S, n) ==
    IF n = 0 THEN {<<>>}
    ELSE LET shorter == SeqsUpTo(S, n - 1)
         IN  shorter \cup {Append(q, x) : q \in {r \in shorter : Len(r) = n - 1}, x \in S}

\* what self.detector(gray, 0) and self.predictor give for a frame: the
\* readings of the faces found, in the order of rects
Frames == SeqsUpTo(Faces, MaxFaces)

VARIABLES
    \* DrowsinessDetector fields
    counter, blink_count, yawn_count, drowsy, yawning,
    \* the status dictionary returned by the latest process_frame call
    status,
    \* the operation performed last ("init" before any)
    op,
    \* history: the latest frame's last face (the one whose readings the
    \* status reports), as a sequence of length 1; empty if it had no face
    frame_last,
    \* history: number of consecutive face-detected frames with
    \* ear < EAR_THRESHOLD up to now, and blink_count when that run started
    run, run_start_blinks,
    \* alert.py: the module's _last_alert_time dictionary
    last_alert_time,
    \* the latest reading of time.time()
    clock,
    \* the dictionary returned by the latest trigger_alert call
    alert,
    \* the risk levels of the _play_beep threads the latest trigger_alert
    \* call started (none or one)
    started,
    \* history: for each risk level, the clock reading of the latest call that
    \* returned an alert that was not suppressed (no entry before the first)
    fired,
    \* history: the entry of `fired` for the risk level of the latest call, as
    \* it was before that call (a sequence of length 0 or 1)
    fired_before,
    \* history: the source argument of the latest trigger_alert call
    call_source,
    \* AlertLogger.log, and the dictionary returned by the latest
    \* get_summary call (empty before the first)
    log, summary,
    \* the risk levels of the _play_beep threads started and not yet run
    threads,
    \* alert.py's SOUND_AVAILABLE, fixed when the module is imported: a
    \* sequence holding the value once a thread has read it
    SOUND_AVAILABLE,
    \* history: how the latest _play_beep thread ended
    beep,
    \* history: the session that made the latest trigger_alert call, and for
    \* each risk level the session whose call returned the latest alert that
    \* was not suppressed (0: none)
    caller, fired_session,
    \* DriverHealthModel fields: is_trained, and for rf_model, gb_model and
    \* scaler the number of the train call that fitted it (0: not fitted)
    is_trained, rf_model, gb_model, scaler,
    \* what the latest save call wrote to disk (empty: no file)
    saved,
    \* the number of train calls made
    trains,
    \* what the latest predict call returned or raised
    prediction,
    \* history: the predict_proba results of rf_model and gb_model in the
    \* latest predict call that reached them
    proba,
    \* history: a train or load call has returned normally
    completed,
    \* app.py: the arguments of the latest get_risk_level call (the sensor
    \* dictionary and the three slider values) and what it returned or raised
    data, sliders, risk,
    \* history: the risk levels for which a call was suppressed since the
    \* level's latest alert that was not, and whether the level of the latest
    \* call was among them before that call
    suppressed_since, was_suppressed

detector_vars == <<counter, blink_count, yawn_count, drowsy, yawning, status, op,
                   frame_last, run, run_start_blinks>>

alert_vars == <<last_alert_time, clock, alert, started, fired, fired_before, call_source>>

logger_vars == <<log, summary>>

beep_vars == <<threads, SOUND_AVAILABLE, beep>>

session_vars == <<caller, fired_session>>

health_vars == <<is_trained, rf_model, gb_model, scaler, saved, trains, prediction,
                 proba, completed>>

risk_vars == <<data, sliders, risk>>

repeat_vars == <<suppressed_since, was_suppressed>>

\* the detector's variables other than op
frame_vars == <<counter, blink_count, yawn_count, drowsy, yawning, status,
                frame_last, run, run_start_blinks>>

vars == <<detector_vars, alert_vars, logger_vars, beep_vars, session_vars, health_vars,
          risk_vars, repeat_vars>>

(***************************************************************************)
(* numpy float64 values: the finite ones as integers in units of 1/10000,  *)
(* and two values that stand for inf and nan.                              *)
(***************************************************************************)
inf == 1000000000
nan == -1

\* x < y on floats: false when either side is nan
Less(x, y) == x # nan /\ y # nan /\ x < y

(***************************************************************************)
(* round(x, 3) of a value in units of 1/10000, result in units of 1/1000;  *)
(* inf and nan round to themselves.  The readings used are never at a tie. *)
(***************************************************************************)
Round3(x) == IF x \in {inf, nan} THEN x ELSE (x + 5) \div 10

\* the detector's fields as one record
Self == [counter |-> counter, blink_count |-> blink_count, yawn_count |-> yawn_count,
         drowsy |-> drowsy, yawning |-> yawning]

\* the status dictionary as process_frame first builds it
InitialStatus(self) ==
    [face_detected |-> FALSE, ear |-> 0, mar |-> 0,
     blink_count |-> self.blink_count, yawn_count |-> self.yawn_count,
     drowsy |-> FALSE, yawning |-> FALSE, risk_level |-> "NORMAL"]

\* the head of the per-rect loop body: face_detected, ear and mar of status
Readings(m, face) ==
    [m EXCEPT !.status.face_detected = TRUE,
              !.status.ear = Round3(face.ear),
              !.status.mar = Round3(face.mar)]

\* "Drowsiness Logic" of the loop body
DrowsinessLogic(m, ear) ==
    IF Less(ear, EAR_THRESHOLD)
    THEN LET c == m.self.counter + 1
         IN  IF c >= EAR_CONSEC_FRAMES
             THEN [m EXCEPT !.self.counter = c, !.self.drowsy = TRUE,
                            !.status.drowsy = TRUE]
             ELSE [m EXCEPT !.self.counter = c]
    ELSE LET b == IF m.self.counter >= BLINK_MIN_FRAMES
                  THEN m.self.blink_count + 1 ELSE m.self.blink_count
             st == IF m.self.counter >= BLINK_MIN_FRAMES
                   THEN [m.status EXCEPT !.blink_count = b] ELSE m.status
         IN  [self |-> [m.self EXCEPT !.blink_count = b, !.counter = 0,
                                      !.drowsy = FALSE],
              status |-> st,
              raised |-> m.raised]

\* "Yawn Logic" of the loop body
YawnLogic(m, mar) ==
    IF Less(YAWN_THRESHOLD, mar)
    THEN [m EXCEPT !.self.yawn_count = IF m.self.yawning THEN @ ELSE @ + 1,
                   !.self.yawning = TRUE,
                   !.status.yawning = TRUE]
    ELSE [m EXCEPT !.self.yawning = FALSE]

\* one pass of `for rect in rects`
RectBody(m, face) == YawnLogic(DrowsinessLogic(Readings(m, face), face.ear), face.mar)

RECURSIVE ForEachRect(_, _)
ForEachRect(m, rects) ==
    IF rects = <<>> THEN m
    ELSE IF Head(rects).raised THEN [m EXCEPT !.raised = TRUE]
    ELSE ForEachRect(RectBody(m, Head(rects)), Tail(rects))

\* "Risk Level" at the end of process_frame
RiskLevel(st) ==
    IF st.drowsy /\ st.yawning THEN "CRITICAL"
    ELSE IF st.drowsy \/ st.yawn_count >= YAWN_WARNING_COUNT THEN "WARNING"
    ELSE "NORMAL"

\* the end of process_frame: the risk level is set from the status, unless
\* an exception left the loop
Return(m) ==
    IF m.raised THEN m ELSE [m EXCEPT !.status.risk_level = RiskLevel(m.status)]

\* process_frame with a frame without a face taken as an eyes-open frame
process_frame_no_face_as_open(self, rects) ==
    IF rects = <<>>
    THEN Return([self |-> [self EXCEPT !.counter = 0, !.drowsy = FALSE],
                 status |-> InitialStatus(self), raised |-> FALSE])
    ELSE Return(ForEachRect([self |-> self, status |-> InitialStatus(self),
                             raised |-> FALSE], rects))

\* process_frame: the detector's fields afterwards, the status it returns,
\* and whether it raised instead of returning
process_frame(self, rects) ==
    Return(ForEachRect([self |-> self, status |-> InitialStatus(self),
                        raised |-> FALSE], rects))

(***************************************************************************)
(* History kept beside the program's state.                                *)
(***************************************************************************)
\* the EAR a frame with a face reports: that of the last face processed
FrameEar(rects) == rects[Len(rects)].ear
FrameMar(rects) == rects[Len(rects)].mar

RunAfter(rects) ==
    IF rects = <<>> THEN run
    ELSE IF Less(FrameEar(rects), EAR_THRESHOLD) THEN run + 1 ELSE 0

(***************************************************************************)
(* alert.py                                                                *)
(***************************************************************************)
\* The risk levels the callers pass.  The message and action texts are the
\* source's without their leading symbol.  The timestamp of an alert is the
\* clock reading of the call: time.strftime reads the clock within the same
\* second as time.time() did.
RiskLevels == {"NORMAL", "WARNING", "CRITICAL"}
Sources == {"DROWSINESS", "HEALTH", "FUSION"}
\* the details argument: None, or a dictionary given by its keys
NoDetails == [none |-> TRUE, keys |-> {}]
Details == {NoDetails, [none |-> FALSE, keys |-> {"ear"}]}
Times == 0..MaxTime

COOLDOWN_SECONDS == [r \in RiskLevels |->
    CASE r = "NORMAL" -> 5 [] r = "WARNING" -> 10 [] r = "CRITICAL" -> 3]

messages == [r \in RiskLevels |->
    CASE r = "NORMAL" -> "Driver status is NORMAL. All readings within safe range."
      [] r = "WARNING" -> "WARNING! Signs of fatigue or elevated heart rate detected."
      [] r = "CRITICAL" -> "CRITICAL ALERT! Immediate danger - pull over now!"]

actions == [r \in RiskLevels |->
    CASE r = "NORMAL" -> "Continue monitoring."
      [] r = "WARNING" -> "Recommend rest break in 15 minutes."
      [] r = "CRITICAL" -> "STOP VEHICLE IMMEDIATELY. Sound alarm."]

\* the cooldown check with the cooldown looked up under a key that
\* COOLDOWN_SECONDS does not hold, so that .get gives its default 5
InCooldown_default_cooldown(last, risk_level, now) ==
    /\ risk_level \in DOMAIN last
    /\ now - last[risk_level] < 5

\* the cooldown check without the age of the timestamp: a risk level that
\* has fired is suppressed from then on
InCooldown_never_expires(last, risk_level, now) == risk_level \in DOMAIN last

\* the cooldown check with <= for <
InCooldown_inclusive(last, risk_level, now) ==
    /\ risk_level \in DOMAIN last
    /\ now - last[risk_level] <= COOLDOWN_SECONDS[risk_level]

\* the cooldown check: the call at `now` is suppressed
InCooldown(last, risk_level, now) ==
    /\ risk_level \in DOMAIN last
    /\ now - last[risk_level] < COOLDOWN_SECONDS[risk_level]

\* _last_alert_time[risk_level] = now
SetLast(last, risk_level, now) ==
    [r \in DOMAIN last \cup {risk_level} |-> IF r = risk_level THEN now ELSE last[r]]

\* trigger_alert with _last_alert_time[risk_level] = now moved before the
\* cooldown check's return
trigger_alert_stamp_suppressed(last, risk_level, source, details, now) ==
    IF InCooldown(last, risk_level, now)
    THEN [alert |-> [suppressed |-> TRUE, risk_level |-> risk_level],
          last |-> SetLast(last, risk_level, now),
          started |-> <<>>]
    ELSE [alert |-> [timestamp |-> now,
                     risk_level |-> risk_level,
                     source |-> source,
                     message |-> messages[risk_level],
                     action |-> actions[risk_level],
                     details |-> IF details.none THEN {} ELSE details.keys,
                     suppressed |-> FALSE],
          last |-> SetLast(last, risk_level, now),
          started |-> IF risk_level \in {"WARNING", "CRITICAL"}
                      THEN <<risk_level>> ELSE <<>>]

\* trigger_alert with _last_alert_time looked up and set under the source
\* of the call instead of its risk level
trigger_alert_keyed_by_source(last, risk_level, source, details, now) ==
    IF source \in DOMAIN last /\ now - last[source] < COOLDOWN_SECONDS[risk_level]
    THEN [alert |-> [suppressed |-> TRUE, risk_level |-> risk_level],
          last |-> last,
          started |-> <<>>]
    ELSE [alert |-> [timestamp |-> now,
                     risk_level |-> risk_level,
                     source |-> source,
                     message |-> messages[risk_level],
                     action |-> actions[risk_level],
                     details |-> IF details.none THEN {} ELSE details.keys,
                     suppressed |-> FALSE],
          last |-> SetLast(last, source, now),
          started |-> IF risk_level \in {"WARNING", "CRITICAL"}
                      THEN <<risk_level>> ELSE <<>>]

\* trigger_alert without the test `if risk_level in ("WARNING", "CRITICAL")`
\* before the thread is started
trigger_alert_beep_always(last, risk_level, source, details, now) ==
    IF InCooldown(last, risk_level, now)
    THEN [alert |-> [suppressed |-> TRUE, risk_level |-> risk_level],
          last |-> last,
          started |-> <<>>]
    ELSE [alert |-> [timestamp |-> now,
                     risk_level |-> risk_level,
                     source |-> source,
                     message |-> messages[risk_level],
                     action |-> actions[risk_level],
                     details |-> IF details.none THEN {} ELSE details.keys,
                     suppressed |-> FALSE],
          last |-> SetLast(last, risk_level, now),
          started |-> <<risk_level>>]

\* trigger_alert with the clock reading `now`: the dictionary it returns,
\* _last_alert_time after it, and the threads it started
trigger_alert(last, risk_level, source, details, now) ==
    IF InCooldown(last, risk_level, now)
    THEN [alert |-> [suppressed |-> TRUE, risk_level |-> risk_level],
          last |-> last,
          started |-> <<>>]
    ELSE [alert |-> [timestamp |-> now,
                     risk_level |-> risk_level,
                     source |-> source,
                     message |-> messages[risk_level],
                     action |-> actions[risk_level],
                     details |-> IF details.none THEN {} ELSE details.keys,
                     suppressed |-> FALSE],
          last |-> SetLast(last, risk_level, now),
          started |-> IF risk_level \in {"WARNING", "CRITICAL"}
                      THEN <<risk_level>> ELSE <<>>]

Init ==
    /\ last_alert_time = <<>>
    /\ clock = 0
    /\ alert = [risk_level |-> "NONE"]
    /\ started = <<>>
    /\ fired = <<>>
    /\ fired_before = <<>>
    /\ call_source = "NONE"
    /\ log = <<>>
    /\ summary = <<>>
    /\ threads = <<>>
    /\ SOUND_AVAILABLE = <<>>
    /\ beep = "none"
    /\ caller = 0
    /\ fired_session = <<>>
    /\ is_trained = FALSE
    /\ rf_model = 0 /\ gb_model = 0 /\ scaler = 0
    /\ saved = <<>>
    /\ trains = 0
    /\ prediction = [raised |-> "none", risk_level |-> "NONE"]
    /\ proba = <<>>
    /\ completed = FALSE
    /\ data = <<>>
    /\ sliders = [ear_thresh |-> 25, hr_critical |-> 140, spo2_warn |-> 95]
    /\ risk = "NONE"
    /\ suppressed_since = {}
    /\ was_suppressed = FALSE
    /\ counter = 0 /\ blink_count = 0 /\ yawn_count = 0
    /\ drowsy = FALSE /\ yawning = FALSE
    /\ status = InitialStatus([blink_count |-> 0, yawn_count |-> 0])
    /\ op = "init"
    /\ frame_last = <<>>
    /\ run = 0 /\ run_start_blinks = 0

ProcessFrame(rects) ==
    \E r \in {process_frame(Self, rects)} :
        /\ r.self.counter <= MaxCounter
        /\ r.self.blink_count <= MaxBlinks
        /\ r.self.yawn_count <= MaxYawns
        /\ RunAfter(rects) <= MaxCounter
        /\ counter' = r.self.counter
        /\ blink_count' = r.self.blink_count
        /\ yawn_count' = r.self.yawn_count
        /\ drowsy' = r.self.drowsy
        /\ yawning' = r.self.yawning
        /\ status' = IF r.raised THEN status ELSE r.status
        /\ op' = IF r.raised THEN "process_frame_raised" ELSE "process_frame"
        /\ frame_last' = IF r.raised THEN frame_last
                         ELSE IF rects = <<>> THEN <<>> ELSE <<rects[Len(rects)]>>
        /\ run' = IF r.raised THEN run ELSE RunAfter(rects)
        /\ run_start_blinks' = IF ~r.raised /\ run = 0 /\ RunAfter(rects) = 1
                               THEN blink_count
                               ELSE run_start_blinks

Next ==
    \E rects \in Frames :
        /\ ProcessFrame(rects)
        /\ UNCHANGED <<alert_vars, logger_vars, beep_vars, session_vars, health_vars,
                       risk_vars, repeat_vars>>

Spec == Init /\ [][Next]_vars

\* a trigger_alert call; time.time() reads `now`, not before the latest reading
TriggerAlert(risk_level, source, details, now) ==
    /\ now >= clock
    /\ \E r \in {trigger_alert(last_alert_time, risk_level, source, details, now)} :
        /\ clock' = now
        /\ last_alert_time' = r.last
        /\ alert' = r.alert
        /\ started' = r.started
        /\ fired' = IF r.alert.suppressed THEN fired
                    ELSE [l \in DOMAIN fired \cup {risk_level} |->
                             IF l = risk_level THEN now ELSE fired[l]]
        /\ fired_before' = IF risk_level \in DOMAIN fired THEN <<fired[risk_level]>>
                           ELSE <<>>
        /\ call_source' = source
        /\ op' = "trigger_alert"
        /\ UNCHANGED <<counter, blink_count, yawn_count, drowsy, yawning, status,
                       frame_last, run, run_start_blinks>>

AlertNext ==
    \E risk_level \in RiskLevels, source \in Sources, details \in Details, now \in Times :
        /\ TriggerAlert(risk_level, source, details, now)
        /\ UNCHANGED <<logger_vars, beep_vars, session_vars, health_vars, risk_vars,
                   repeat_vars>>

AlertSpec == Init /\ [][AlertNext]_vars

(***************************************************************************)
(* trigger_alert called again and again, for every risk level, while the   *)
(* clock keeps advancing.                                                  *)
(***************************************************************************)
RepeatCall(risk_level, now) ==
    /\ TriggerAlert(risk_level, "DROWSINESS", NoDetails, now)
    /\ suppressed_since' = IF alert'.suppressed
                           THEN suppressed_since \cup {risk_level}
                           ELSE suppressed_since \ {risk_level}
    /\ was_suppressed' = (risk_level \in suppressed_since)
    /\ UNCHANGED <<logger_vars, beep_vars, session_vars, health_vars, risk_vars>>

\* clock readings two seconds apart
RepeatTimes == {t \in Times : t % 2 = 0}

RepeatNext ==
    \E risk_level \in RiskLevels, now \in RepeatTimes : RepeatCall(risk_level, now)

\* a call with a later clock reading than the one before
ClockAdvances ==
    \E risk_level \in RiskLevels, now \in RepeatTimes :
        now > clock /\ RepeatCall(risk_level, now)

\* a call for one risk level
Dispatched(risk_level) == \E now \in RepeatTimes : RepeatCall(risk_level, now)

RepeatSpec ==
    /\ Init /\ [][RepeatNext]_vars
    /\ WF_vars(ClockAdvances)
    /\ \A risk_level \in RiskLevels : WF_vars(Dispatched(risk_level))

(***************************************************************************)
(* AlertLogger and the _play_beep threads.                                 *)
(***************************************************************************)
\* AlertLogger.add with every dictionary appended, suppressed or not
add_suppressed_too(self_log, a) == Append(self_log, a)

\* AlertLogger.add: self.log afterwards
add(self_log, a) == IF ~a.suppressed THEN Append(self_log, a) ELSE self_log

Count(self_log, level) ==
    Cardinality({i \in 1..Len(self_log) : self_log[i].risk_level = level})

\* AlertLogger.get_summary: the dictionary returned
get_summary(self_log) ==
    [total_alerts |-> Len(self_log),
     critical |-> Count(self_log, "CRITICAL"),
     warnings |-> Count(self_log, "WARNING"),
     normal |-> Len(self_log) - Count(self_log, "CRITICAL") - Count(self_log, "WARNING")]

\* AlertLogger.clear: self.log afterwards
clear(self_log) == <<>>

\* how a _play_beep thread can end
BeepOutcomes == {"no_backend", "no_tone", "played", "failed"}

\* _play_beep with an except clause that forgets the tier's timestamp
_play_beep_forgets_on_failure(shared, risk_level, available, ok) ==
    IF available /\ ~ok /\ risk_level \in DOMAIN shared.last
    THEN [shared |-> [shared EXCEPT !.last =
                         [l \in DOMAIN shared.last \ {risk_level} |-> shared.last[l]]],
          outcome |-> "failed"]
    ELSE [shared |-> shared, outcome |-> "no_backend"]

\* _play_beep(risk_level), run by its thread: `available` is SOUND_AVAILABLE
\* and `ok` tells whether make_sound and play return without an exception.
\* `shared` is what the thread could reach of the module's and the logger's
\* state (_last_alert_time and the log); the body assigns to none of it.
_play_beep(shared, risk_level, available, ok) ==
    [shared |-> shared,
     outcome |-> IF ~available THEN "no_backend"
                 ELSE IF risk_level \notin {"WARNING", "CRITICAL"} THEN "no_tone"
                 ELSE IF ok THEN "played"
                 ELSE "failed"]

\* logger.add(alert) with the dictionary the latest trigger_alert call returned
LoggerAdd ==
    /\ op \in {"trigger_alert", "add", "get_summary", "play_beep"}
    /\ alert.risk_level # "NONE"
    /\ log' = add(log, alert)
    /\ Len(log') <= MaxLog
    /\ op' = "add"
    /\ UNCHANGED <<summary, alert_vars, beep_vars, session_vars, health_vars, risk_vars,
                   repeat_vars>>
    /\ UNCHANGED <<counter, blink_count, yawn_count, drowsy, yawning, status,
                   frame_last, run, run_start_blinks>>

LoggerGetSummary ==
    /\ summary' = get_summary(log)
    /\ op' = "get_summary"
    /\ UNCHANGED <<log, alert_vars, beep_vars, session_vars, health_vars, risk_vars,
                   repeat_vars>>
    /\ UNCHANGED <<counter, blink_count, yawn_count, drowsy, yawning, status,
                   frame_last, run, run_start_blinks>>

LoggerClear ==
    /\ log' = clear(log)
    /\ op' = "clear"
    /\ UNCHANGED <<summary, alert_vars, beep_vars, session_vars, health_vars, risk_vars,
                   repeat_vars>>
    /\ UNCHANGED <<counter, blink_count, yawn_count, drowsy, yawning, status,
                   frame_last, run, run_start_blinks>>

\* a trigger_alert call whose thread, if it starts one, waits to run
TriggerAlertWithThread(risk_level, source, details, now) ==
    /\ TriggerAlert(risk_level, source, details, now)
    /\ threads' = threads \o started'
    /\ Len(threads') <= MaxThreads
    /\ UNCHANGED <<logger_vars, SOUND_AVAILABLE, beep, session_vars, health_vars, risk_vars,
                   repeat_vars>>

\* the i-th waiting thread runs _play_beep to its end
PlayBeep(i, available, ok) ==
    /\ i \in 1..Len(threads)
    /\ SOUND_AVAILABLE \in {<<>>, <<available>>}
    /\ \E r \in {_play_beep([last |-> last_alert_time, log |-> log],
                             threads[i], available, ok)} :
        /\ last_alert_time' = r.shared.last
        /\ log' = r.shared.log
        /\ beep' = r.outcome
    /\ SOUND_AVAILABLE' = <<available>>
    /\ threads' = [j \in 1..(Len(threads) - 1) |->
                      IF j < i THEN threads[j] ELSE threads[j + 1]]
    /\ op' = "play_beep"
    /\ UNCHANGED <<clock, alert, started, fired, fired_before, call_source, summary,
                   session_vars, health_vars, risk_vars,
                   repeat_vars>>
    /\ UNCHANGED <<counter, blink_count, yawn_count, drowsy, yawning, status,
                   frame_last, run, run_start_blinks>>

\* clock readings four seconds apart
SparseTimes == {t \in Times : t % 4 = 0}

\* the calls a session makes to trigger_alert, with one source and no
\* details, and to its AlertLogger
LoggerNext ==
    \/ \E risk_level \in RiskLevels, now \in SparseTimes :
          /\ TriggerAlert(risk_level, "DROWSINESS", NoDetails, now)
          /\ UNCHANGED <<logger_vars, beep_vars, session_vars, health_vars, risk_vars,
                   repeat_vars>>
    \/ LoggerAdd
    \/ LoggerGetSummary
    \/ LoggerClear

LoggerSpec == Init /\ [][LoggerNext]_vars

\* clock readings six seconds apart
BeepTimes == {t \in Times : t % 6 = 0}

\* the same calls with the threads that trigger_alert starts
BeepNext ==
    \/ \E risk_level \in RiskLevels, now \in BeepTimes :
          TriggerAlertWithThread(risk_level, "DROWSINESS", NoDetails, now)
    \/ LoggerAdd
    \/ LoggerClear
    \/ \E i \in 1..MaxThreads, available \in BOOLEAN, ok \in BOOLEAN :
          PlayBeep(i, available, ok)

BeepSpec == Init /\ [][BeepNext]_vars

(***************************************************************************)
(* Two monitoring sessions of one process: both call the trigger_alert of  *)
(* the one imported alert module.                                          *)
(***************************************************************************)
Sessions == {1, 2}

SessionTriggerAlert(s, risk_level, source, details, now) ==
    /\ TriggerAlert(risk_level, source, details, now)
    /\ caller' = s
    /\ fired_session' = IF alert'.suppressed THEN fired_session
                        ELSE SetLast(fired_session, risk_level, s)
    /\ UNCHANGED <<logger_vars, beep_vars, health_vars, risk_vars,
                   repeat_vars>>

SessionNext ==
    \E s \in Sessions, risk_level \in RiskLevels, now \in Times :
        SessionTriggerAlert(s, risk_level, "DROWSINESS", NoDetails, now)

SessionSpec == Init /\ [][SessionNext]_vars

(***************************************************************************)
(* heart_rate_model.py: DriverHealthModel.  Probabilities are in           *)
(* hundredths, combined probabilities in ten-thousandths, the confidence   *)
(* in tenths of a percent.                                                 *)
(***************************************************************************)
RISK_LABELS == [i \in 0..2 |-> <<"NORMAL", "WARNING", "CRITICAL">>[i + 1]]

\* a row of class probabilities, indexed from 0 as in numpy
Row(a, b, c) == [i \in 0..2 |-> <<a, b, c>>[i + 1]]

\* what predict_proba returns for the readings tried: the three class
\* probabilities, summing to 1
ProbaVectors ==
    {Row(10, 80, 10), Row(0, 20, 80), Row(50, 0, 50), Row(0, 50, 50),
     Row(80, 20, 0), Row(100, 0, 0), Row(50, 50, 0), Row(0, 0, 100),
     Row(10, 10, 80), Row(20, 0, 80)}

\* (rf_weight * rf_proba) + (gb_weight * gb_proba) for one row
Combined(rf_proba, gb_proba) ==
    [i \in 0..2 |-> rf_weight * rf_proba[i] + gb_weight * gb_proba[i]]

\* argmax that returns the last index holding the maximum
ArgMax_last(v) ==
    CHOOSE i \in DOMAIN v :
        /\ \A j \in DOMAIN v : v[j] <= v[i]
        /\ \A j \in DOMAIN v : j > i => v[j] < v[i]

\* np.argmax: the first index holding the maximum
ArgMax(v) ==
    CHOOSE i \in DOMAIN v :
        /\ \A j \in DOMAIN v : v[j] <= v[i]
        /\ \A j \in DOMAIN v : j < i => v[j] < v[i]

\* max(...) of a row
MaxOf(v) == v[ArgMax(v)]

\* round(float(confidence) * 100, 1), from ten-thousandths to tenths of a
\* percent
Round1(x) == (x + 5) \div 10

\* _fuse_predictions with the two weights exchanged
_fuse_predictions_weights_exchanged(rf_proba, gb_proba) ==
    ArgMax([i \in 0..2 |-> gb_weight * rf_proba[i] + rf_weight * gb_proba[i]])

\* _fuse_predictions for one row
_fuse_predictions(rf_proba, gb_proba) == ArgMax(Combined(rf_proba, gb_proba))

HealthSelf ==
    [is_trained |-> is_trained, rf_model |-> rf_model, gb_model |-> gb_model,
     scaler |-> scaler]

\* predict: what it returns or raises.  scaler.transform and predict_proba
\* raise NotFittedError on an object that was never fitted; rf_proba and
\* gb_proba are what the two predict_proba calls return.
predict(self, rf_proba, gb_proba) ==
    IF ~self.is_trained THEN [raised |-> "RuntimeError", risk_level |-> "NONE"]
    ELSE IF self.scaler = 0 \/ self.rf_model = 0 \/ self.gb_model = 0
    THEN [raised |-> "NotFittedError", risk_level |-> "NONE"]
    ELSE LET label == _fuse_predictions(rf_proba, gb_proba)
             confidence == MaxOf(Combined(rf_proba, gb_proba))
         IN  [raised |-> "none",
              risk_label |-> label,
              risk_level |-> RISK_LABELS[label],
              confidence |-> Round1(confidence)]

\* where a train call can raise: before the scaler is fitted (a missing
\* column, a split that cannot be stratified), in rf_model.fit, in
\* gb_model.fit, in the evaluation, or nowhere
TrainFailures == {"before", "rf", "gb", "evaluate", "none"}

\* train, its d-th call, raising at fail_at: self afterwards
train(self, d, fail_at) ==
    [is_trained |-> IF fail_at = "none" THEN TRUE ELSE self.is_trained,
     scaler |-> IF fail_at = "before" THEN self.scaler ELSE d,
     rf_model |-> IF fail_at \in {"before", "rf"} THEN self.rf_model ELSE d,
     gb_model |-> IF fail_at \in {"before", "rf", "gb"} THEN self.gb_model ELSE d]

\* load, joblib.load returning `loaded`: self afterwards
load(self, loaded) ==
    [is_trained |-> TRUE, rf_model |-> loaded.rf, gb_model |-> loaded.gb,
     scaler |-> loaded.scaler]

HealthUnchanged ==
    UNCHANGED <<frame_vars, alert_vars, logger_vars, beep_vars, session_vars, risk_vars, repeat_vars>>

Train(fail_at) ==
    /\ trains < MaxTrains
    /\ trains' = trains + 1
    /\ \E r \in {train(HealthSelf, trains + 1, fail_at)} :
        /\ is_trained' = r.is_trained
        /\ rf_model' = r.rf_model
        /\ gb_model' = r.gb_model
        /\ scaler' = r.scaler
    /\ completed' = (completed \/ fail_at = "none")
    /\ op' = IF fail_at = "none" THEN "train" ELSE "train_raised"
    /\ UNCHANGED <<saved, prediction, proba>>
    /\ HealthUnchanged

Predict(rf_proba, gb_proba) ==
    /\ prediction' = predict(HealthSelf, rf_proba, gb_proba)
    /\ proba' = IF prediction'.raised = "none" THEN <<rf_proba, gb_proba>> ELSE <<>>
    /\ op' = "predict"
    /\ UNCHANGED <<is_trained, rf_model, gb_model, scaler, saved, trains, completed>>
    /\ HealthUnchanged

Save ==
    /\ saved' = <<[rf |-> rf_model, gb |-> gb_model, scaler |-> scaler]>>
    /\ op' = "save"
    /\ UNCHANGED <<is_trained, rf_model, gb_model, scaler, trains, prediction, proba,
                   completed>>
    /\ HealthUnchanged

\* load: joblib.load raises when there is no file
Load ==
    /\ IF saved = <<>>
       THEN /\ op' = "load_raised"
            /\ UNCHANGED <<is_trained, rf_model, gb_model, scaler, completed>>
       ELSE /\ \E r \in {load(HealthSelf, saved[1])} :
                /\ is_trained' = r.is_trained
                /\ rf_model' = r.rf_model
                /\ gb_model' = r.gb_model
                /\ scaler' = r.scaler
            /\ completed' = TRUE
            /\ op' = "load"
    /\ UNCHANGED <<saved, trains, prediction, proba>>
    /\ HealthUnchanged

HealthNext ==
    \/ \E fail_at \in TrainFailures : Train(fail_at)
    \/ \E rf_proba \in ProbaVectors, gb_proba \in ProbaVectors : Predict(rf_proba, gb_proba)
    \/ Save
    \/ Load

HealthSpec == Init /\ [][HealthNext]_vars

(***************************************************************************)
(* app.py: get_risk_level.  Heart rate in BPM, SpO2 in percent, HRV in ms, *)
(* EAR and ear_thresh in hundredths.                                       *)
(***************************************************************************)
\* sensor dictionaries with every key: each signal below, between and above
\* the values the conditions compare it with
FullData ==
    [heart_rate : {100, 125, 145}, spo2 : {98, 94, 91}, ear : {31, 22, 14},
     hrv : {40, 10}, yawn_count : {0, 3}]

\* the same dictionaries with any of the keys missing
SensorData ==
    {[k \in keys |-> full[k]] :
        full \in FullData,
        keys \in SUBSET {"heart_rate", "spo2", "ear", "hrv", "yawn_count"}}

\* the slider values: the defaults, and another setting within the ranges
SliderValues ==
    {[ear_thresh |-> 25, hr_critical |-> 140, spo2_warn |-> 95],
     [ear_thresh |-> 30, hr_critical |-> 120, spo2_warn |-> 97]}

\* get_risk_level with the EAR left out of the first condition
get_risk_level_ear_not_critical(d, ear_thresh, hr_critical, spo2_warn) ==
    IF ~({"heart_rate", "spo2", "ear", "hrv"} \subseteq DOMAIN d) THEN "KeyError"
    ELSE IF \/ d.heart_rate > hr_critical
            \/ d.spo2 < spo2_warn - 3
            \/ d.hrv < 15
    THEN "CRITICAL"
    ELSE IF \/ d.heart_rate > hr_critical - 20
            \/ d.spo2 < spo2_warn
            \/ d.ear < ear_thresh
    THEN "WARNING"
    ELSE IF "yawn_count" \notin DOMAIN d THEN "KeyError"
    ELSE IF d.yawn_count >= 3 THEN "WARNING"
    ELSE "NORMAL"

\* get_risk_level: the tier returned, or "KeyError" when a subscript of
\* `d` raises (yawn_count is read only when the conditions before it are
\* all false)
get_risk_level(d, ear_thresh, hr_critical, spo2_warn) ==
    IF ~({"heart_rate", "spo2", "ear", "hrv"} \subseteq DOMAIN d) THEN "KeyError"
    ELSE IF \/ d.heart_rate > hr_critical
            \/ d.spo2 < spo2_warn - 3
            \/ d.ear < ear_thresh - 5
            \/ d.hrv < 15
    THEN "CRITICAL"
    ELSE IF \/ d.heart_rate > hr_critical - 20
            \/ d.spo2 < spo2_warn
            \/ d.ear < ear_thresh
    THEN "WARNING"
    ELSE IF "yawn_count" \notin DOMAIN d THEN "KeyError"
    ELSE IF d.yawn_count >= 3 THEN "WARNING"
    ELSE "NORMAL"

GetRiskLevel(d, s) ==
    /\ data' = d
    /\ sliders' = s
    /\ risk' = get_risk_level(d, s.ear_thresh, s.hr_critical, s.spo2_warn)
    /\ op' = "get_risk_level"
    /\ UNCHANGED <<frame_vars, alert_vars, logger_vars, beep_vars, session_vars, health_vars,
                   repeat_vars>>

RiskNext == \E d \in SensorData, s \in SliderValues : GetRiskLevel(d, s)

RiskSpec == Init /\ [][RiskNext]_vars

(***************************************************************************)
(* detect_drowsiness.py: eye_aspect_ratio and mouth_aspect_ratio on the    *)
(* landmarks of a face.  Points are <<x, y>> in pixels; the contours used  *)
(* have whole-pixel distances.                                             *)
(***************************************************************************)
\* dist.euclidean of two points
euclidean(p, q) ==
    CHOOSE d \in 0..100 :
        d * d = (p[1] - q[1]) * (p[1] - q[1]) + (p[2] - q[2]) * (p[2] - q[2])

\* n / d on numpy float64 of two distances: a zero divisor gives inf, or nan
\* for 0 / 0, with a RuntimeWarning; it raises where numpy's error handling
\* or the warnings filter turns that into an exception (fp_raise)
Divide(n, d, fp_raise) ==
    IF d # 0 THEN [value |-> (10000 * n) \div d, raised |-> FALSE]
    ELSE IF fp_raise THEN [value |-> nan, raised |-> TRUE]
    ELSE [value |-> IF n = 0 THEN nan ELSE inf, raised |-> FALSE]

eye_aspect_ratio(eye, fp_raise) ==
    LET A == euclidean(eye[1], eye[5])
        B == euclidean(eye[2], eye[4])
        C == euclidean(eye[0], eye[3])
    IN  Divide(A + B, 2 * C, fp_raise)

mouth_aspect_ratio(mouth, fp_raise) ==
    LET A == euclidean(mouth[13], mouth[19])
        B == euclidean(mouth[14], mouth[18])
        C == euclidean(mouth[15], mouth[17])
        D == euclidean(mouth[12], mouth[16])
    IN  Divide(A + B + C, 3 * D, fp_raise)

\* (left_ear + right_ear) / 2.0
MeanEar(left_ear, right_ear) ==
    IF left_ear = nan \/ right_ear = nan THEN nan
    ELSE IF left_ear = inf \/ right_ear = inf THEN inf
    ELSE (left_ear + right_ear) \div 2

\* the head of the loop body for one face: its EAR and MAR, or the exception
Measure(shape, fp_raise) ==
    LET left_ear == eye_aspect_ratio(shape.left_eye, fp_raise)
        right_ear == eye_aspect_ratio(shape.right_eye, fp_raise)
        mar == mouth_aspect_ratio(shape.mouth, fp_raise)
    IN  IF left_ear.raised \/ right_ear.raised \/ mar.raised
        THEN [ear |-> nan, mar |-> nan, raised |-> TRUE]
        ELSE [ear |-> MeanEar(left_ear.value, right_ear.value),
              mar |-> mar.value,
              raised |-> FALSE]

\* an eye contour of width w opened by 2 * h, and the inner mouth contour
\* (points 12 to 19 of the mouth) likewise
EyeContour(w, h) ==
    [i \in 0..5 |->
        <<<<0, 20>>, <<10, 20 + h>>, <<20, 20 + h>>, <<w, 20>>, <<20, 20 - h>>,
          <<10, 20 - h>>>>[i + 1]]

MouthContour(w, h) ==
    [i \in 12..19 |->
        <<<<0, 20>>, <<10, 20 + h>>, <<15, 20 + h>>, <<20, 20 + h>>, <<w, 20>>,
          <<20, 20 - h>>, <<15, 20 - h>>, <<10, 20 - h>>>>[i - 11]]

\* the faces the predictor finds: eyes closed, eyes open, a left eye of zero
\* width, a left eye shrunk to one point, a mouth of zero width
Shapes ==
    {[left_eye |-> EyeContour(30, 3), right_eye |-> EyeContour(30, 3),
      mouth |-> MouthContour(40, 5)],
     [left_eye |-> EyeContour(30, 6), right_eye |-> EyeContour(30, 6),
      mouth |-> MouthContour(40, 5)],
     [left_eye |-> EyeContour(0, 3), right_eye |-> EyeContour(30, 3),
      mouth |-> MouthContour(40, 5)],
     [left_eye |-> EyeContour(0, 0), right_eye |-> EyeContour(30, 3),
      mouth |-> MouthContour(40, 5)],
     [left_eye |-> EyeContour(30, 3), right_eye |-> EyeContour(30, 3),
      mouth |-> MouthContour(0, 5)]}

\* what the loop heads of process_frame compute for the frames whose faces
\* have these landmarks, in a process that raises on a zero divisor and in
\* one that does not
MeasuredFrames ==
    {[i \in 1..Len(shapes) |-> Measure(shapes[i], fp_raise)] :
        shapes \in SeqsUpTo(Shapes, MaxFaces), fp_raise \in BOOLEAN}

\* process_frame on such a frame
GeometryFrame(rects) ==
    /\ ProcessFrame(rects)
    /\ UNCHANGED <<alert_vars, logger_vars, beep_vars, session_vars, health_vars,
                   risk_vars, repeat_vars>>

GeometryNext == \E rects \in MeasuredFrames : GeometryFrame(rects)

GeometrySpec == Init /\ [][GeometryNext]_vars

(***************************************************************************)
(* Claims about DrowsinessDetector.process_frame.                          *)
(***************************************************************************)
\* the latest frame had a face / reports an open eye / reports a yawn
FaceFrame == frame_last # <<>>
OpenFrame == FaceFrame /\ frame_last[1].ear >= EAR_THRESHOLD
YawnFrame == FaceFrame /\ frame_last[1].mar > YAWN_THRESHOLD

\* C1: when a closed-eye run of at least EAR_CONSEC_FRAMES frames is ended
\* by an eye-open frame, blink_count after that frame equals blink_count
\* before the run started.
C1_NoBlinkAfterDrowsyRun ==
    [][(run >= EAR_CONSEC_FRAMES /\ run' = 0) => blink_count' = run_start_blinks]_vars

\* C2: an eye-open frame that ends a closed-eye run of n frames adds exactly
\* 1 to blink_count if 3 <= n < EAR_CONSEC_FRAMES and nothing if n < 3, and
\* drowsy is false on every frame of a run shorter than EAR_CONSEC_FRAMES.
C2_BlinkPerShortRun ==
    [][/\ (run >= BLINK_MIN_FRAMES /\ run < EAR_CONSEC_FRAMES /\ run' = 0)
            => blink_count' = blink_count + 1
       /\ (run > 0 /\ run < BLINK_MIN_FRAMES /\ run' = 0)
            => blink_count' = blink_count
       /\ (run' > 0 /\ run' < EAR_CONSEC_FRAMES) => ~drowsy']_vars

\* C3: drowsy is true exactly when counter >= EAR_CONSEC_FRAMES; it becomes
\* true on the 20th consecutive closed-eye frame and not earlier; and a
\* face-detected frame with ear >= EAR_THRESHOLD resets counter to 0 and
\* drowsy to false.
C3_DrowsyAtTwentiethFrame ==
    /\ [](drowsy <=> counter >= EAR_CONSEC_FRAMES)
    /\ [][/\ (~drowsy /\ drowsy') => run' = EAR_CONSEC_FRAMES
          /\ run' = EAR_CONSEC_FRAMES => drowsy'
          /\ (op' = "process_frame" /\ OpenFrame') => (counter' = 0 /\ ~drowsy')]_vars

\* the tier the state implies
StateTier ==
    IF drowsy /\ yawning THEN "CRITICAL"
    ELSE IF drowsy \/ yawn_count >= YAWN_WARNING_COUNT THEN "WARNING"
    ELSE "NORMAL"

\* C4: the tier process_frame returns for a frame with a face is the tier of
\* the state after that frame's update, and the yawn_count it returns is the
\* updated one (so the frame on which the third yawn begins returns
\* yawn_count 3 and at least WARNING).
C4_TierFromUpdatedState ==
    (op = "process_frame" /\ status.face_detected)
        => (status.risk_level = StateTier /\ status.yawn_count = yawn_count)

\* C5: a frame in which no face is detected yields tier NORMAL and
\* face_detected = false, whatever the accumulated state.
C5_NoFaceIsNormal ==
    (op = "process_frame" /\ ~FaceFrame)
        => (status.risk_level = "NORMAL" /\ status.face_detected = FALSE)

\* C6: a frame in which no face is detected leaves counter, blink_count,
\* yawn_count, drowsy and yawning as they were.
C6_NoFaceKeepsState ==
    [][(op' = "process_frame" /\ ~FaceFrame')
          => /\ counter' = counter /\ blink_count' = blink_count
             /\ yawn_count' = yawn_count
             /\ drowsy' = drowsy /\ yawning' = yawning]_vars

\* C6 witness: a no-face frame arrived in the middle of a closed-eye run,
\* during a yawn, and the run and the yawn are still there.
C6_Witness ==
    /\ op = "process_frame" /\ ~FaceFrame /\ ~status.face_detected
    /\ counter > 0 /\ counter < EAR_CONSEC_FRAMES /\ run = counter
    /\ yawning /\ yawn_count > 0 /\ blink_count > 0

\* C7: yawn_count grows by exactly 1 on a face-detected frame with
\* mar > YAWN_THRESHOLD whose previous yawning flag was false and is
\* unchanged on every other frame; after a face-detected frame yawning
\* equals (mar > YAWN_THRESHOLD).
C7_YawnEpisodes ==
    [][/\ yawn_count' = yawn_count + (IF YawnFrame' /\ ~yawning THEN 1 ELSE 0)
       /\ FaceFrame' => (yawning' = YawnFrame')]_vars

(***************************************************************************)
(* Claims about trigger_alert.                                             *)
(***************************************************************************)
\* the cooldowns the specification states
StatedCooldown(r) == CASE r = "NORMAL" -> 5 [] r = "WARNING" -> 10 [] r = "CRITICAL" -> 3

\* the latest step was a trigger_alert call / one that returned an alert
Called == op = "trigger_alert"
Alerted == Called /\ ~alert.suppressed

\* C8: with non-decreasing clock readings, an alert that is not suppressed
\* comes at least COOLDOWN_SECONDS[tier] (NORMAL 5, WARNING 10, CRITICAL 3)
\* after the previous not-suppressed alert of the same tier, whatever the
\* sources of the two calls.
C8_SameTierAlertsApart ==
    (Alerted /\ fired_before # <<>>)
        => clock - fired_before[1] >= StatedCooldown(alert.risk_level)

\* C8 witness: a second WARNING alert, from HEALTH, exactly 10 seconds after
\* the WARNING alert before it, and a CRITICAL alert fired in between.
C8_Witness ==
    /\ Alerted /\ alert.risk_level = "WARNING" /\ alert.source = "HEALTH"
    /\ fired_before # <<>> /\ clock - fired_before[1] = 10
    /\ "CRITICAL" \in DOMAIN fired /\ fired["CRITICAL"] > fired_before[1]

\* C9: a call for a tier less than cooldown[tier] seconds after that tier's
\* latest not-suppressed alert returns suppressed = true, leaves
\* _last_alert_time as it was and starts no tone thread.
C9_SuppressedCallChangesNothing ==
    [][(op' = "trigger_alert"
          /\ alert'.risk_level \in DOMAIN fired
          /\ clock' - fired[alert'.risk_level] < StatedCooldown(alert'.risk_level))
        => /\ alert' = [suppressed |-> TRUE, risk_level |-> alert'.risk_level]
           /\ last_alert_time' = last_alert_time
           /\ started' = <<>>]_vars

\* C9 witness: a CRITICAL call 2 seconds after the latest CRITICAL alert was
\* suppressed, and the stored timestamp is still that alert's.
C9_Witness ==
    /\ Called /\ alert.suppressed /\ alert.risk_level = "CRITICAL"
    /\ fired_before # <<>> /\ clock - fired_before[1] = 2
    /\ last_alert_time["CRITICAL"] = fired_before[1]
    /\ started = <<>>

\* C10: a call for a tier that has never fired, or whose latest
\* not-suppressed alert is at least cooldown[tier] seconds old, returns
\* suppressed = false with the tier's fixed message and action, and sets the
\* tier's timestamp to the call's clock reading.
C10_CallOutsideCooldownFires ==
    [][(op' = "trigger_alert"
          /\ (alert'.risk_level \in DOMAIN fired
                => clock' - fired[alert'.risk_level] >= StatedCooldown(alert'.risk_level)))
        => /\ alert'.suppressed = FALSE
           /\ alert'.message = messages[alert'.risk_level]
           /\ alert'.action = actions[alert'.risk_level]
           /\ alert'.risk_level \in DOMAIN last_alert_time'
           /\ last_alert_time'[alert'.risk_level] = clock']_vars

\* C10 witness: a CRITICAL call exactly 3 seconds after the latest CRITICAL
\* alert fired, and a NORMAL call fired that was the first of its tier.
C10_Witness ==
    /\ Alerted /\ alert.risk_level = "CRITICAL"
    /\ fired_before # <<>> /\ clock - fired_before[1] = 3
    /\ last_alert_time["CRITICAL"] = clock
    /\ "NORMAL" \in DOMAIN fired /\ fired["NORMAL"] > 0

\* C11: a call for tier X leaves the timestamp of every other tier as it
\* was; it is suppressed only when an alert of tier X itself fired less than
\* cooldown[X] seconds before; and it is suppressed then whatever its source
\* and the source of that alert (the sources share the tier's cooldown).
C11_CooldownPerTier ==
    [][op' = "trigger_alert" =>
        LET r == alert'.risk_level
            recent == r \in DOMAIN fired /\ clock' - fired[r] < StatedCooldown(r)
        IN  /\ \A x \in RiskLevels \ {r} :
                 /\ x \in DOMAIN last_alert_time' <=> x \in DOMAIN last_alert_time
                 /\ x \in DOMAIN last_alert_time
                      => last_alert_time'[x] = last_alert_time[x]
            /\ alert'.suppressed => recent
            /\ recent => alert'.suppressed
            /\ (Alerted /\ alert.risk_level = r /\ alert.source # call_source'
                  /\ clock' - clock < StatedCooldown(r)) => alert'.suppressed]_vars

\* C11 witness: a WARNING call from HEALTH is suppressed although a CRITICAL
\* alert fired after the latest WARNING alert, and both timestamps are kept.
C11_Witness ==
    /\ Called /\ alert.suppressed /\ alert.risk_level = "WARNING"
    /\ call_source = "HEALTH"
    /\ "CRITICAL" \in DOMAIN fired /\ fired["CRITICAL"] > fired["WARNING"]
    /\ clock - fired["CRITICAL"] >= 3
    /\ last_alert_time["CRITICAL"] = fired["CRITICAL"]
    /\ last_alert_time["WARNING"] = fired["WARNING"]

\* C12: a trigger_alert call starts a _play_beep thread exactly when it is
\* not suppressed and its tier is WARNING or CRITICAL, and the thread is
\* started for that tier.
C12_ToneOnlyForFiredWarningOrCritical ==
    Called =>
        /\ started # <<>> <=> (~alert.suppressed
                                 /\ alert.risk_level \in {"WARNING", "CRITICAL"})
        /\ started # <<>> => started = <<alert.risk_level>>

\* C12 witness: a CRITICAL alert fired and started its thread, after a
\* NORMAL alert had fired.
C12_Witness ==
    /\ Alerted /\ alert.risk_level = "CRITICAL" /\ started = <<"CRITICAL">>
    /\ "NORMAL" \in DOMAIN fired

\* C13: a _play_beep thread, whenever it runs among later trigger_alert and
\* AlertLogger calls and however it ends, leaves _last_alert_time, the log
\* and the returned dictionary as they were; and every dispatch, whatever
\* threads ran or failed before it, is suppressed exactly when an alert of
\* its tier fired less than the tier's cooldown before.
C13_BeepThreadWritesNothing ==
    [][/\ op' = "play_beep"
            => /\ last_alert_time' = last_alert_time
               /\ log' = log
               /\ alert' = alert
               /\ fired' = fired
       /\ op' = "trigger_alert"
            => (alert'.suppressed <=>
                  /\ alert'.risk_level \in DOMAIN fired
                  /\ clock' - fired[alert'.risk_level]
                        < StatedCooldown(alert'.risk_level))]_vars

\* C13 witness: after one thread failed, and with another still waiting, a
\* later call was suppressed and the log holds the earlier alert.
C13_Witness ==
    /\ op = "trigger_alert" /\ alert.suppressed
    /\ beep = "failed" /\ threads # <<>> /\ log # <<>>

\* C14: a call is suppressed only because of an alert of its own session:
\* the latest alert of its tier that was not suppressed came from the
\* session that makes the call.
C14_NoCrossSessionSuppression ==
    (Called /\ alert.suppressed) => fired_session[alert.risk_level] = caller

\* C15 as stated: add appends exactly the dictionaries that are not
\* suppressed, and no step ever shortens the log or changes an entry.
C15_LogAppendOnly ==
    [][/\ op' = "add" => log' = IF alert.suppressed THEN log ELSE Append(log, alert)
       /\ Len(log') >= Len(log)
       /\ SubSeq(log', 1, Len(log)) = log]_vars

\* C15, amended: add appends exactly the dictionaries that are not
\* suppressed, the log never holds a suppressed one, and every step other
\* than clear keeps the entries and their order; clear empties the log.
C15_LogAppendOnlyUntilCleared ==
    [][/\ op' = "add" => log' = IF alert.suppressed THEN log ELSE Append(log, alert)
       /\ \A i \in 1..Len(log') : ~log'[i].suppressed
       /\ op' # "clear" => /\ Len(log') >= Len(log)
                           /\ SubSeq(log', 1, Len(log)) = log
       /\ op' = "clear" => log' = <<>>]_vars

\* C15 witness: add was called with a suppressed dictionary on a log of two
\* alerts of different times.
C15_Witness ==
    /\ op = "add" /\ alert.suppressed
    /\ Len(log) >= 2 /\ log[1].timestamp < log[2].timestamp

\* the combined probability of tier i in the latest prediction, as the claim
\* states it: 0.45 * P_a + 0.55 * P_b
StatedCombined(i) == 45 * proba[1][i] + 55 * proba[2][i]

\* C16: a prediction's tier is one whose combined probability
\* 0.45 * P_a + 0.55 * P_b is the largest, its confidence is that tier's
\* combined probability as a percentage (to a tenth of a percent), and for
\* P_a = [0.1, 0.8, 0.1], P_b = [0.0, 0.2, 0.8] it is index 2, CRITICAL, 48.5.
C16_FusedPrediction ==
    (op = "predict" /\ prediction.raised = "none") =>
        /\ \A j \in 0..2 : StatedCombined(j) <= StatedCombined(prediction.risk_label)
        /\ prediction.risk_level = RISK_LABELS[prediction.risk_label]
        /\ 10 * prediction.confidence - StatedCombined(prediction.risk_label) \in -5..5
        /\ proba = <<Row(10, 80, 10), Row(0, 20, 80)>>
              => /\ prediction.risk_label = 2
                 /\ prediction.risk_level = "CRITICAL"
                 /\ prediction.confidence = 485

\* C16 witness: the prediction for P_a = [0.1, 0.8, 0.1], P_b = [0.0, 0.2, 0.8]
C16_Witness ==
    /\ op = "predict" /\ prediction.raised = "none"
    /\ proba = <<Row(10, 80, 10), Row(0, 20, 80)>>
    /\ prediction.confidence = 485

\* C17: predict returns a tier only after a train or load call returned
\* normally; before that it raises, returns no tier and changes nothing; and
\* after a train call that raised the model is not ready.
C17_PredictOnlyWhenReady ==
    [][/\ (op' = "predict" /\ prediction'.raised = "none") => completed
       /\ (op' = "predict" /\ ~completed)
            => /\ prediction'.raised # "none" /\ prediction'.risk_level = "NONE"
               /\ UNCHANGED <<is_trained, rf_model, gb_model, scaler, saved>>
       /\ op' = "train_raised" => ~is_trained']_vars

\* the geometry signals and the vitals of the latest get_risk_level call,
\* and whether the call was given them
GeometryKeys == {"ear", "yawn_count"}
VitalsKeys == {"heart_rate", "spo2", "hrv"}
GeometryPresent == GeometryKeys \subseteq DOMAIN data
VitalsPresent == VitalsKeys \subseteq DOMAIN data

\* the tier either group of signals implies on its own
GeometryTier ==
    IF data.ear < sliders.ear_thresh - 5 THEN "CRITICAL"
    ELSE IF data.ear < sliders.ear_thresh \/ data.yawn_count >= 3 THEN "WARNING"
    ELSE "NORMAL"

VitalsTier ==
    IF \/ data.heart_rate > sliders.hr_critical
       \/ data.spo2 < sliders.spo2_warn - 3
       \/ data.hrv < 15
    THEN "CRITICAL"
    ELSE IF data.heart_rate > sliders.hr_critical - 20 \/ data.spo2 < sliders.spo2_warn
    THEN "WARNING"
    ELSE "NORMAL"

Severity(tier) == CASE tier = "NORMAL" -> 0 [] tier = "WARNING" -> 1 [] tier = "CRITICAL" -> 2

\* C18: the result is the more severe of the tiers of the groups of signals
\* that are present, a missing group being left out; with neither group
\* present the call fails instead of returning a tier.
C18_AggregateMaxOfPresent ==
    (/\ op = "get_risk_level"
     /\ DOMAIN data \in {{}, GeometryKeys, VitalsKeys, GeometryKeys \cup VitalsKeys})
        => IF GeometryPresent /\ VitalsPresent
           THEN risk = IF Severity(GeometryTier) >= Severity(VitalsTier)
                       THEN GeometryTier ELSE VitalsTier
           ELSE IF GeometryPresent THEN risk = GeometryTier
           ELSE IF VitalsPresent THEN risk = VitalsTier
           ELSE risk \notin RiskLevels

Finite(x) == x \notin {inf, nan}

\* C19: process_frame never returns after taking an infinite or NaN ratio
\* for a face: the readings it reports and the ones it compared with
\* EAR_THRESHOLD and YAWN_THRESHOLD are finite (a contour of zero width
\* makes the call fail instead).
C19_NoInfiniteOrNaNRatio ==
    (op = "process_frame" /\ FaceFrame)
        => /\ Finite(frame_last[1].ear) /\ Finite(frame_last[1].mar)
           /\ Finite(status.ear) /\ Finite(status.mar)

\* C20: a process_frame call that raises while computing a face's EAR or MAR
\* leaves counter, blink_count, yawn_count, drowsy and yawning as they were
\* before the call.
C20_FrameUpdateAtomic ==
    [][op' = "process_frame_raised"
          => /\ counter' = counter /\ blink_count' = blink_count
             /\ yawn_count' = yawn_count
             /\ drowsy' = drowsy /\ yawning' = yawning]_vars

\* the tier one signal of the latest get_risk_level call implies on its own
SignalTier(k) ==
    CASE k = "ear" ->
           IF data.ear < sliders.ear_thresh - 5 THEN "CRITICAL"
           ELSE IF data.ear < sliders.ear_thresh THEN "WARNING" ELSE "NORMAL"
      [] k = "heart_rate" ->
           IF data.heart_rate > sliders.hr_critical THEN "CRITICAL"
           ELSE IF data.heart_rate > sliders.hr_critical - 20 THEN "WARNING"
           ELSE "NORMAL"
      [] k = "spo2" ->
           IF data.spo2 < sliders.spo2_warn - 3 THEN "CRITICAL"
           ELSE IF data.spo2 < sliders.spo2_warn THEN "WARNING" ELSE "NORMAL"
      [] k = "hrv" -> IF data.hrv < 15 THEN "CRITICAL" ELSE "NORMAL"
      [] k = "yawn_count" -> IF data.yawn_count >= 3 THEN "WARNING" ELSE "NORMAL"

\* C21: the tier get_risk_level returns is at least the tier each signal it
\* was given implies on its own, so it is NORMAL only when every signal
\* implies NORMAL.
C21_TakeTheWorse ==
    (op = "get_risk_level" /\ risk \in RiskLevels)
        => /\ \A k \in DOMAIN data : Severity(risk) >= Severity(SignalTier(k))
           /\ risk = "NORMAL" => \A k \in DOMAIN data : SignalTier(k) = "NORMAL"

\* C21 witness: an EAR below ear_thresh - 0.05 with heart rate, SpO2, HRV and
\* yawn count all normal gives CRITICAL.
C21_Witness ==
    /\ op = "get_risk_level" /\ risk = "CRITICAL"
    /\ DOMAIN data = GeometryKeys \cup VitalsKeys
    /\ SignalTier("ear") = "CRITICAL"
    /\ \A k \in DOMAIN data \ {"ear"} : SignalTier(k) = "NORMAL"

\* C22: one process_frame call adds at most 1 to counter, to blink_count and
\* to yawn_count, whatever the number of faces in the frame, and drowsy is
\* true only once EAR_CONSEC_FRAMES frames were processed since counter was
\* last 0.
C22_CounterCountsFrames ==
    [][op' = "process_frame"
          => /\ counter' <= counter + 1
             /\ blink_count' <= blink_count + 1
             /\ yawn_count' <= yawn_count + 1
             /\ drowsy' => run' >= EAR_CONSEC_FRAMES]_vars

\* C23: the tier predict reports has a combined probability strictly above
\* that of every tier of lower index, so among tied tiers the lowest index
\* is selected; a NORMAL/CRITICAL tie at the maximum yields NORMAL.
C23_TieSelectsLowestIndex ==
    (op = "predict" /\ prediction.raised = "none") =>
        /\ \A j \in 0..2 :
             j < prediction.risk_label
                => StatedCombined(j) < StatedCombined(prediction.risk_label)
        /\ prediction.risk_level = RISK_LABELS[prediction.risk_label]
        /\ (/\ StatedCombined(0) = StatedCombined(2)
            /\ StatedCombined(1) <= StatedCombined(0))
              => prediction.risk_level = "NORMAL"

\* C23 witness: NORMAL and CRITICAL tie at the maximum, NORMAL is reported.
C23_Witness ==
    /\ op = "predict" /\ prediction.raised = "none"
    /\ StatedCombined(0) = StatedCombined(2)
    /\ StatedCombined(1) < StatedCombined(0)
    /\ prediction.risk_label = 0 /\ prediction.risk_level = "NORMAL"

\* C25: over process_frame calls blink_count and yawn_count never decrease,
\* and counter is left as it was, grows by 1 on a face-detected frame with
\* ear < EAR_THRESHOLD, or is reset to 0 on a face-detected frame with
\* ear >= EAR_THRESHOLD.
C25_MonotoneCounters ==
    [][/\ blink_count' >= blink_count
       /\ yawn_count' >= yawn_count
       /\ \/ counter' = counter
          \/ counter' = counter + 1 /\ FaceFrame' /\ ~OpenFrame'
          \/ counter' = 0 /\ OpenFrame']_vars

\* a clock reading tried lies at or after the end of tier r's cooldown
CooldownEnds(r) == \E t \in RepeatTimes : t >= fired[r] + StatedCooldown(r)

\* C24: a call for a tier at or after the tier's latest not-suppressed alert
\* plus its cooldown is not suppressed, whatever calls came in between; so,
\* when every tier keeps being dispatched and the clock keeps advancing, a
\* suppressed call is always followed by an alert of its tier that is not
\* suppressed (as long as the cooldown ends within the clock readings tried).
C24_SuppressionNotPermanent ==
    /\ [][(op' = "trigger_alert"
             /\ alert'.risk_level \in DOMAIN fired
             /\ clock' >= fired[alert'.risk_level] + StatedCooldown(alert'.risk_level))
           => (~alert'.suppressed /\ fired'[alert'.risk_level] = clock')]_vars
    /\ \A r \in RiskLevels :
         (/\ Called /\ alert.suppressed /\ alert.risk_level = r
          /\ CooldownEnds(r))
           ~> (Alerted /\ alert.risk_level = r)

\* C24 witness: a WARNING alert fired at least 10 seconds after the WARNING
\* alert before it, after a WARNING call in between had been suppressed, a
\* CRITICAL alert had fired in between and a CRITICAL call was suppressed.
C24_Witness ==
    /\ Alerted /\ alert.risk_level = "WARNING"
    /\ fired_before # <<>> /\ clock >= fired_before[1] + 10
    /\ was_suppressed
    /\ "CRITICAL" \in suppressed_since
    /\ fired["CRITICAL"] > fired_before[1]

=============================================================================
